---------------------------- MODULE Spec2Model ----------------------------
(***************************************************************************)
(* A model of twesterhout/dual-annealing: the aligned triple-buffer pool   *)
(* (src/src/buffers.cpp), the annealing chain and the two minimize drivers *)
(* (src/include/chain.hpp), and the order in which the Tsallis sampler     *)
(* (src/include/tsallis_distribution.hpp) consumes its variates.           *)
(*                                                                         *)
(* Numbers.  size_t is an unsigned integer of SizeBits bits, all size_t    *)
(* arithmetic is taken modulo 2^SizeBits.  Coordinates (float) and         *)
(* objective values (double) are integers: the objective is the Rastrigin  *)
(* function of src/examples/rastrigin.cpp, which on integer points is the  *)
(* sum of squares.  NaN and +infinity are two distinguished values with    *)
(* the IEEE comparison rules (every comparison with NaN is false).         *)
(***************************************************************************)
EXTENDS Integers, Sequences, FiniteSets, TLC

VARIABLES
    buffers,    \* the thread's pool entry: _data, _capacity, _buffer_size
    mem,        \* the floats of the allocation _data points to
    workspace,  \* the three point views current / proposed / best
    chain,      \* sa_chain_t: _i, _num_accepted, _num_f_evals
    drv,        \* the locals of the running minimize call and its caller
    hist,       \* history of the run (what the claims speak about)
    probe,      \* one call of accept_or_reject: its arguments and its branch
    threads,    \* two threads, each with its pool entry and its workspace
    twin,       \* the same minimize call made on a thread with a fresh pool
    step,       \* the last operation on the chain: its inputs and the state
                \* it started from
    sampler     \* a tsallis_distribution_t and the variates it has consumed

vars == <<buffers, mem, workspace, chain, drv, hist, probe, threads, twin,
          step, sampler>>

\* the variables a minimize run on one thread leaves alone
others == <<probe, threads, twin, step, sampler>>

---------------------------------------------------------------------------
(* Bounds of the model *)

\* width of size_t in bits
SizeBits == 12
\* largest dimension D of a minimize call
MaxDim == 2
\* largest params.patience
MaxPatience == 2
\* largest D * params.num_iter of a minimize call
MaxWork == 3
\* the objective's periodic domain [WrapMin, WrapMax)
WrapMin == 0
WrapMax == 2
\* energy differences given to accept_or_reject lie in -MaxDelta .. MaxDelta
MaxDelta == 3

---------------------------------------------------------------------------
(* Program constants *)

cache_line_size == 64
NumBuffers == 3
SizeofFloat == 4

\* std::numeric_limits<double>::quiet_NaN() and ::infinity(), as values
\* outside the range of every objective value of the model
NaN == 1000001
Infinity == 1000000

SizeMod == 2 ^ SizeBits
SizeMax == SizeMod - 1

---------------------------------------------------------------------------
(* IEEE comparisons on double *)

IsNaN(a) == a = NaN
FLt(a, b) == ~IsNaN(a) /\ ~IsNaN(b) /\ a < b
FLe(a, b) == ~IsNaN(a) /\ ~IsNaN(b) /\ a <= b
FGe(a, b) == ~IsNaN(a) /\ ~IsNaN(b) /\ a >= b

---------------------------------------------------------------------------
(* buffers_base_t<3>, src/src/buffers.cpp *)

\* (value + (Alignment - 1)) & ~(Alignment - 1) in size_t
align_up(value) ==
    LET s == (value + (cache_line_size - 1)) % SizeMod
    IN  s - (s % cache_line_size)

\* align_up<cache_line_size>(size) * N in size_t
required_capacity(size) == (align_up(size) * NumBuffers) % SizeMod

\* allocate_buffer's guard: size > max / sizeof(float)
AllocOverflows(size) == size > SizeMax \div SizeofFloat

\* allocate_buffer(size): "overflow_error", "bad_alloc" (aligned_alloc
\* returned nullptr: allocOk is FALSE) or "ok"
allocate_buffer(size, allocOk) ==
    IF AllocOverflows(size) THEN "overflow_error"
    ELSE IF ~allocOk THEN "bad_alloc"
    ELSE "ok"

\* The floats of one allocation of n floats: cap is n, nz maps the offsets
\* (0 .. n-1) of the floats that are not zero to their values.
ZeroMem(n) == [cap |-> n, nz |-> [a \in {} |-> 0]]

\* the float at offset a
Load(m, a) == IF a \in DOMAIN m.nz THEN m.nz[a] ELSE 0

\* the allocation with x stored at offset a
Store(m, a, x) ==
    LET keep == IF x = 0 THEN DOMAIN m.nz \ {a} ELSE DOMAIN m.nz \cup {a}
    IN  [m EXCEPT !.nz = [b \in keep |-> IF b = a THEN x ELSE m.nz[b]]]

\* a vector of n floats, all zero
ZeroVec(n) == [k \in 0 .. (n - 1) |-> 0]

\* resize(size) on entry b with contents m.  thrown # "none" is the exception
\* that leaves resize; the entry is then as allocate_buffer's throw left it.
resize_size_on_growth(b, m, size, allocOk) ==
    LET required == required_capacity(size)
    IN  IF required > b._capacity
        THEN LET outcome == allocate_buffer(required, allocOk)
             IN  IF outcome # "ok"
                 THEN [thrown |-> outcome, buffers |-> b, mem |-> m]
                 ELSE [thrown  |-> "none",
                       buffers |-> [_data        |-> b._data + 1,
                                    _capacity    |-> required,
                                    _buffer_size |-> size],
                       mem     |-> ZeroMem(required)]
        ELSE [thrown  |-> "none",
              buffers |-> b,
              mem     |-> ZeroMem(b._capacity)]
resize(b, m, size, allocOk) ==
    LET required == required_capacity(size)
    IN  IF required > b._capacity
        THEN LET outcome == allocate_buffer(required, allocOk)
             IN  IF outcome # "ok"
                 THEN [thrown |-> outcome, buffers |-> b, mem |-> m]
                 ELSE [thrown  |-> "none",
                       buffers |-> [_data        |-> b._data + 1,
                                    _capacity    |-> required,
                                    _buffer_size |-> size],
                       mem     |-> ZeroMem(required)]
        ELSE [thrown  |-> "none",
              buffers |-> [b EXCEPT !._buffer_size = size],
              mem     |-> ZeroMem(b._capacity)]

buffer_size(b) == b._buffer_size
buffer_capacity(b) == align_up(buffer_size(b))

\* get<I>(): the span {_data + I * buffer_capacity(), buffer_size()}; data is
\* the offset of the span's first float from _data
get(b, I) == [data |-> I * buffer_capacity(b), size |-> buffer_size(b)]

\* point_t{span}: func is NaN
point_t(span) == [func |-> NaN, x |-> span]

\* sa_buffers_t::workspace()
MakeWorkspace(b) ==
    [current  |-> point_t(get(b, 0)),
     proposed |-> point_t(get(b, 1)),
     best     |-> point_t(get(b, 2))]

Views == {"current", "proposed", "best"}

NoSpan == [data |-> 0, size |-> 0]
NoWorkspace ==
    [current |-> point_t(NoSpan), proposed |-> point_t(NoSpan),
     best |-> point_t(NoSpan)]

\* thread_local_workspace(size): resize, then workspace(); every exception is
\* caught and turned into an empty optional
thread_local_workspace(b, m, size, allocOk) ==
    LET r == resize(b, m, size, allocOk)
    IN  [has_value |-> r.thrown = "none",
         escaped   |-> FALSE,
         caught    |-> r.thrown,
         workspace |-> IF r.thrown = "none" THEN MakeWorkspace(r.buffers)
                       ELSE NoWorkspace,
         buffers   |-> r.buffers,
         mem       |-> r.mem]

---------------------------------------------------------------------------
(* Reading and writing the floats behind a span *)

InBounds(span, m) == span.data + span.size <= m.cap

\* the span's elements as a vector
ReadX(m, span) == [k \in 0 .. (span.size - 1) |-> Load(m, span.data + k)]

\* the n floats that start where the span starts: the range of a
\* std::memcpy of n * sizeof(float) bytes from or to span.data()
FirstN(span, n) == [data |-> span.data, size |-> n]

\* memcpy / std::transform of the vector v into the span
WriteX(m, span, v) ==
    LET idx  == {span.data + k : k \in 0 .. (span.size - 1)}
        keep == (DOMAIN m.nz \ idx) \cup {a \in idx : v[a - span.data] # 0}
    IN  [m EXCEPT !.nz = [a \in keep |-> IF a \in idx THEN v[a - span.data]
                                         ELSE m.nz[a]]]

---------------------------------------------------------------------------
(* The objective: rastrigin_t of src/examples/rastrigin.cpp *)

Coord == WrapMin .. (WrapMax - 1)
Points(D) == [0 .. (D - 1) -> Coord]

\* std::fmod: the remainder has the sign of the dividend
fmod(a, b) == IF a >= 0 THEN a % b ELSE 0 - ((0 - a) % b)

\* to_range_t::operator()
to_range(x) ==
    LET length == WrapMax - WrapMin
        delta  == fmod(fmod(x - WrapMin, length) + length, length)
    IN  WrapMin + delta

wrap(x) == to_range(x)

RECURSIVE SumSq(_, _)
SumSq(x, n) == IF n = 0 THEN 0 ELSE x[n - 1] * x[n - 1] + SumSq(x, n - 1)

\* rastrigin_t::value on integer points: a*a - A*cos(2*pi*a) summed, + A*n
do_value(x) == SumSq(x, Cardinality(DOMAIN x))

\* the fallback do_value_from_diff: mutate coordinate j, evaluate, and let the
\* gsl::finally guard restore it
do_value_from_diff_no_undo(m, span, j, xj) ==
    LET m1 == Store(m, span.data + j, xj)
    IN  [func |-> do_value(ReadX(m1, span)), mem |-> m1]
do_value_from_diff(m, span, j, xj) ==
    LET saved == Load(m, span.data + j)
        m1    == Store(m, span.data + j, xj)
        v     == do_value(ReadX(m1, span))
        m2    == Store(m1, span.data + j, saved)
    IN  [func |-> v, mem |-> m2]

---------------------------------------------------------------------------
(* sa_chain_t, src/include/chain.hpp.  A chain state st is the record      *)
(* [workspace, mem, chain].                                                *)

\* rationals n/d with d > 0
Rat(n, d) == [n |-> n, d |-> d]

\* param_t of src/examples/rastrigin.cpp, q_V rounded to an integer so that
\* the powers of the schedule are computable
q_V_example == 2
q_A_example == -5
t_0_example == 10

\* FLT_MANT_DIG: the bits of a float's significand
FloatMantissa == 24

RECURSIVE BitLen(_)
BitLen(n) == IF n = 0 THEN 0 ELSE 1 + BitLen(n \div 2)

\* static_cast<float>(n) for an unsigned integer n: the nearest value with
\* FloatMantissa significant bits, ties to the even significand
to_float(n) ==
    LET e == BitLen(n) - FloatMantissa
    IN  IF e <= 0 THEN n
        ELSE LET unit == 2 ^ e
                 q    == n \div unit
                 r    == n % unit
                 up   == 2 * r > unit \/ (2 * r = unit /\ q % 2 = 1)
             IN  (IF up THEN q + 1 ELSE q) * unit

\* temperature(i) = t_0 * (2^(q_V-1) - 1) / (float(2+i)^(q_V-1) - 1)
temperature_exact(p, i) ==
    Rat(p.t_0 * (2 ^ (p.q_V - 1) - 1), (2 + i) ^ (p.q_V - 1) - 1)
temperature(p, i) ==
    Rat(p.t_0 * (2 ^ (p.q_V - 1) - 1), to_float(2 + i) ^ (p.q_V - 1) - 1)

\* t_A = t_V / (i + 1)
acceptance_temperature(p, i) ==
    LET t_V == temperature(p, i) IN Rat(t_V.n, t_V.d * (i + 1))

\* accept_or_reject(dE, t_A, ...) with the uniform draw u (a rational in
\* [0, 1)): TRUE iff the accept branch is taken.
\*   factor = 1 + (q_A - 1) * dE / t_A
\*   P      = factor <= 0 ? 0 : factor^(1 / (1 - q_A))
\* u <= factor^(1/k) is decided as u^k <= factor (k = 1 - q_A > 0), and
\* u <= factor^(-1/k) as u^k * factor <= 1 (k = q_A - 1 > 0).  For q_A = 1
\* factor is 1 and std::pow(1, +infinity) is 1.
accept_or_reject_strict(dE, t_A, q_A, u) ==
    IF dE < 0 THEN TRUE
    ELSE LET fn == t_A.n + (q_A - 1) * dE * t_A.d
             fd == t_A.n
         IN  IF fn <= 0 THEN u.n < 0
             ELSE IF q_A = 1 THEN u.n < u.d
             ELSE IF q_A < 1
                  THEN (u.n ^ (1 - q_A)) * fd < fn * (u.d ^ (1 - q_A))
                  ELSE (u.n ^ (q_A - 1)) * fn < fd * (u.d ^ (q_A - 1))
accept_or_reject_draw_first(dE, t_A, q_A, u) ==
    LET fn == t_A.n + (q_A - 1) * dE * t_A.d
        fd == t_A.n
    IN  IF fn <= 0 THEN u.n <= 0
        ELSE IF q_A = 1 THEN TRUE
        ELSE IF q_A < 1
             THEN (u.n ^ (1 - q_A)) * fd <= fn * (u.d ^ (1 - q_A))
             ELSE (u.n ^ (q_A - 1)) * fn <= fd * (u.d ^ (q_A - 1))
accept_or_reject(dE, t_A, q_A, u) ==
    IF dE < 0 THEN TRUE
    ELSE LET fn == t_A.n + (q_A - 1) * dE * t_A.d
             fd == t_A.n
         IN  IF fn <= 0 THEN u.n <= 0
             ELSE IF q_A = 1 THEN TRUE
             ELSE IF q_A < 1
                  THEN (u.n ^ (1 - q_A)) * fd <= fn * (u.d ^ (1 - q_A))
                  ELSE (u.n ^ (q_A - 1)) * fn <= fd * (u.d ^ (q_A - 1))

dim(st) == st.workspace.current.x.size

\* point_t::operator=(point_t const&): copies func and the elements
assign(st, dst, src) ==
    LET w == st.workspace
    IN  [st EXCEPT !.workspace[dst].func = w[src].func,
                   !.mem = WriteX(st.mem, w[dst].x, ReadX(st.mem, w[src].x))]

\* swap(current, proposed): the two points exchange func and span
swap_current_proposed(st) ==
    [st EXCEPT !.workspace.current  = st.workspace.proposed,
               !.workspace.proposed = st.workspace.current]

\* if (current.func < best.func) best = current
update_best_never(st) == st
update_best_always(st) == assign(st, "best", "current")
update_best(st) ==
    IF FLt(st.workspace.current.func, st.workspace.best.func)
    THEN assign(st, "best", "current")
    ELSE st

\* the constructor's body
sa_chain_t_no_seed(w, m, p) ==
    LET f  == do_value(ReadX(m, w.current.x))
        s0 == [workspace |-> [w EXCEPT !.current.func = f],
               mem       |-> m,
               chain     |-> [_i |-> 0, _num_accepted |-> 0, _num_f_evals |-> 1,
                              _t_V |-> Rat(p.t_0, 1)]]
    IN  [s0 EXCEPT !.mem = WriteX(s0.mem, w.proposed.x,
                                  ZeroVec(w.proposed.x.size)),
                   !.workspace.proposed.func = NaN]
sa_chain_t(w, m, p) ==
    LET f  == do_value(ReadX(m, w.current.x))
        s0 == [workspace |-> [w EXCEPT !.current.func = f],
               mem       |-> m,
               chain     |-> [_i |-> 0, _num_accepted |-> 0, _num_f_evals |-> 1,
                              _t_V |-> Rat(p.t_0, 1)]]
        s1 == assign(s0, "best", "current")
    IN  [s1 EXCEPT !.mem = WriteX(s1.mem, w.proposed.x,
                                  ZeroVec(w.proposed.x.size)),
                   !.workspace.proposed.func = NaN]

\* acceptance(): NaN (0/0) before the first iteration
acceptance(st) ==
    IF st.chain._i = 0 THEN Rat(0, 0)
    ELSE Rat(st.chain._num_accepted, (2 * st.chain._i * dim(st)) % SizeMod)

\* the head of operator()(): the new temperature is given to the sampler
advance_begin(st, p) ==
    [st EXCEPT !.chain._t_V = temperature(p, st.chain._i)]

\* generate_full() with the sampler's draws g[0 .. D-1]
generate_full(st, g) ==
    LET w  == st.workspace
        cx == ReadX(st.mem, w.current.x)
        px == [k \in DOMAIN cx |-> wrap(cx[k] + g[k])]
    IN  [st EXCEPT !.mem = WriteX(st.mem, w.proposed.x, px),
                   !.workspace.proposed.func = do_value(px),
                   !.chain._num_f_evals = @ + 1]

\* the accept lambda of the full-move loop
accept_full(st) ==
    update_best(swap_current_proposed(
        [st EXCEPT !.chain._num_accepted = @ + 1]))

\* one pass of the full-move loop body
full_move(st, p, g, u) ==
    LET s1 == generate_full(st, g)
        dE == s1.workspace.proposed.func - s1.workspace.current.func
    IN  IF accept_or_reject(dE, acceptance_temperature(p, st.chain._i), p.q_A, u)
        THEN accept_full(s1)
        ELSE s1

\* the branch accept_or_reject takes in one pass of the full-move loop
full_accepts(st, p, g, u) ==
    LET s1 == generate_full(st, g)
    IN  accept_or_reject(s1.workspace.proposed.func - s1.workspace.current.func,
                         acceptance_temperature(p, st.chain._i), p.q_A, u)

\* generate_one(j) with the sampler's draw: returns {x, func}
generate_one_uncounted(st, j, draw) ==
    LET x == wrap(draw)
        r == do_value_from_diff(st.mem, st.workspace.current.x, j, x)
    IN  [x |-> x, func |-> r.func, st |-> [st EXCEPT !.mem = r.mem]]
generate_one(st, j, draw) ==
    LET x == wrap(draw)
        r == do_value_from_diff(st.mem, st.workspace.current.x, j, x)
    IN  [x |-> x, func |-> r.func,
         st |-> [st EXCEPT !.mem = r.mem, !.chain._num_f_evals = @ + 1]]

\* the accept lambda of the coordinate-move loop
accept_one_stale_func(st, j, x, func) ==
    update_best(
        [st EXCEPT !.chain._num_accepted = @ + 1,
                   !.mem = Store(st.mem, st.workspace.current.x.data + j, x)])
accept_one_by_swap(st, j, x, func) ==
    update_best(swap_current_proposed(
        [st EXCEPT !.chain._num_accepted = @ + 1,
                   !.mem = Store(st.mem, st.workspace.proposed.x.data + j, x),
                   !.workspace.proposed.func = func]))
accept_one(st, j, x, func) ==
    update_best(
        [st EXCEPT !.chain._num_accepted = @ + 1,
                   !.mem = Store(st.mem, st.workspace.current.x.data + j, x),
                   !.workspace.current.func = func])

\* one pass of the coordinate-move loop body
coord_move(st, p, j, draw, u) ==
    LET g  == generate_one(st, j, draw)
        dE == g.func - g.st.workspace.current.func
    IN  IF accept_or_reject(dE, acceptance_temperature(p, st.chain._i), p.q_A, u)
        THEN accept_one(g.st, j, g.x, g.func)
        ELSE g.st

\* the branch accept_or_reject takes in one pass of the coordinate-move loop
coord_accepts(st, p, j, draw, u) ==
    LET g == generate_one(st, j, draw)
    IN  accept_or_reject(g.func - g.st.workspace.current.func,
                         acceptance_temperature(p, st.chain._i), p.q_A, u)

\* ++_i
advance_end(st) == [st EXCEPT !.chain._i = @ + 1]

\* tcm::lbfgs::status_t: the six statuses local_search treats as questionable,
\* success, and one status standing for every other ("real" error) value
SoftStatuses ==
    {"too_many_iterations", "maximum_step_reached", "minimum_step_reached",
     "too_many_function_evaluations", "interval_too_small",
     "rounding_errors_prevent_progress"}
LbfgsStatuses == SoftStatuses \cup {"success", "invalid_argument"}

\* local_search(params) when tcm::lbfgs::minimize leaves out.x in proposed.x,
\* reports out.func and out.status and has called value_and_gradient
\* out.evals times.  Returns the chain state and the status returned.
local_search_keeps_refined(st, out) ==
    LET s1 == assign(st, "proposed", "current")
        s2 == [s1 EXCEPT !.mem = WriteX(s1.mem, s1.workspace.proposed.x, out.x),
                         !.chain._num_f_evals = @ + out.evals,
                         !.workspace.proposed.func = out.func]
        w  == s2.workspace
    IN  IF out.status \in SoftStatuses /\ FGe(w.proposed.func, w.current.func)
        THEN [st |-> swap_current_proposed(s2), status |-> "success"]
        ELSE IF out.status \in SoftStatuses \cup {"success"}
        THEN [st |-> update_best(swap_current_proposed(s2)), status |-> "success"]
        ELSE [st |-> swap_current_proposed(s2), status |-> out.status]
local_search(st, out) ==
    LET s1 == assign(st, "proposed", "current")
        s2 == [s1 EXCEPT !.mem = WriteX(s1.mem, s1.workspace.proposed.x, out.x),
                         !.chain._num_f_evals = @ + out.evals,
                         !.workspace.proposed.func = out.func]
        w  == s2.workspace
    IN  IF out.status \in SoftStatuses /\ FGe(w.proposed.func, w.current.func)
        THEN [st |-> s2, status |-> "success"]
        ELSE IF out.status \in SoftStatuses \cup {"success"}
        THEN [st |-> update_best(swap_current_proposed(s2)), status |-> "success"]
        ELSE [st |-> s2, status |-> out.status]

---------------------------------------------------------------------------
(* minimize, src/include/chain.hpp: the two overloads *)

\* the loop condition of both overloads
loop_condition_one_more(st, p, patience) ==
    st.chain._i <= p.num_iter /\ patience # 0
loop_condition(st, p, patience) ==
    st.chain._i < p.num_iter /\ patience # 0

\* result_t as both overloads build it
result_t(st) ==
    [func        |-> st.workspace.best.func,
     num_iter    |-> st.chain._i,
     num_f_evals |-> st.chain._num_f_evals,
     acceptance  |-> acceptance(st)]

\* memcpy(x.data(), workspace->best.x.data(), ...) and the result
finalise_current(st, d) ==
    [d EXCEPT !.pc = "done",
              !.x = ReadX(st.mem, FirstN(st.workspace.current.x,
                                         Cardinality(DOMAIN d.x))),
              !.result = [result_t(st) EXCEPT !.func = st.workspace.current.func]]
finalise(st, d) ==
    [d EXCEPT !.pc = "done",
              !.x = ReadX(st.mem, FirstN(st.workspace.best.x,
                                         Cardinality(DOMAIN d.x))),
              !.result = result_t(st)]

\* if (!workspace.has_value()) throw std::bad_alloc{}
must_throw_never(r) == FALSE
must_throw(r) == ~r.has_value

\* status != tcm::lbfgs::status_t::success
local_search_failed_ignored(status) == FALSE
local_search_failed(status) == status # "success"

\* the loop body after chain() in the overload without local search, with the
\* loop's --patience
after_advance(st, d) ==
    LET pat == IF FLt(st.workspace.best.func, d.best)
               THEN d.params.patience ELSE d.patience
    IN  [d EXCEPT !.patience = (pat - 1) % SizeMod, !.pc = "loop"]

\* the test and the two assignments that precede local_search in the loop
\* body of the overload with local search
improved_since(st, d) == FLt(st.workspace.best.func, d.best)

---------------------------------------------------------------------------
(* State *)

St == [workspace |-> workspace, mem |-> mem, chain |-> chain]

SetSt(st) ==
    /\ workspace' = st.workspace
    /\ mem' = st.mem
    /\ chain' = st.chain

NoChain == [_i |-> 0, _num_accepted |-> 0, _num_f_evals |-> 0, _t_V |-> Rat(0, 1)]
NoParams == [q_V |-> 0, q_A |-> 0, t_0 |-> 0, num_iter |-> 0, patience |-> 0]
NoResult == [func |-> NaN, num_iter |-> 0, num_f_evals |-> 0,
             acceptance |-> Rat(0, 0)]
NoDrv == [pc |-> "idle", overload |-> "none", x |-> ZeroVec(0),
          params |-> NoParams, best |-> Infinity, patience |-> 0, j |-> 0,
          result |-> NoResult]
NoBuffers == [_data |-> 0, _capacity |-> 0, _buffer_size |-> 0]
NoCall == [made |-> FALSE, size |-> 0, has_value |-> FALSE,
           caught |-> "none", escaped |-> FALSE, kept |-> TRUE,
           fresh |-> FALSE, allocated |-> FALSE, cap_before |-> 0]
\* x0: the caller's vector at the call; advances, ls_calls: calls of
\* operator()() and local_search so far; ls_failed: where local_search returned
\* a failure ("no", "pre", "loop"); bf: workspace.best.func when the running
\* advance began; improved: the last advance lowered workspace.best.func;
\* stale: advances in a row that did not; starved: stale reached
\* params.patience >= 1 with iterations left; acquire_failed: the workspace
\* was not acquired; call: the last direct thread_local_workspace call
\* (kept: it left the pool entry and its storage as they were; fresh: nothing
\* was stored through the returned workspace yet; allocated: _data was
\* replaced by a new allocation; cap_before: _capacity before the call)
\* ls_before, ls_after: current.func before and after the last local_search
\* call; ls_best: workspace.best.func right after it; trig: what the loop
\* body did after the last advance ("search": it reset patience and called
\* local_search, "skip": neither, "none": no advance has ended since);
\* lowered: that advance left best.func below ls_best
NoHist == [x0 |-> ZeroVec(0), advances |-> 0, ls_calls |-> 0, ls_failed |-> "no",
           bf |-> NaN, improved |-> FALSE, stale |-> 0, starved |-> FALSE,
           acquire_failed |-> FALSE, call |-> NoCall,
           ls_before |-> NaN, ls_after |-> NaN, ls_best |-> NaN,
           trig |-> "none", lowered |-> FALSE]

Dims == 1 .. MaxDim
\* the caller's initial points: every coordinate at the same end of the domain
InitialPoints(D) == {[k \in 0 .. (D - 1) |-> c] : c \in Coord}
\* the sampler's variates
Steps == {-1, 0}
Uniforms == {Rat(0, 1), Rat(1, 2), Rat(7, 8)}
Overloads == {"plain", "local_search"}
\* params.num_iter: none, or as many as MaxWork allows in dimension D
NumIters(D) == {0, MaxWork \div D}
\* params.patience: from 0 up to num_iter (a larger patience never runs out)
Patiences(n) == {pat \in 0 .. MaxPatience : pat <= n \/ pat = 1}
\* calls of value_and_gradient made by one tcm::lbfgs::minimize call: one
\* when it gives up at once, two otherwise
LsEvals(s) == IF s = "invalid_argument" THEN {1} ELSE {2}
\* what tcm::lbfgs::minimize may leave behind: any point, its value, any status
LsStatuses == {"success", "too_many_iterations",
               "rounding_errors_prevent_progress", "invalid_argument"}
LsOutcomes(D) ==
    UNION { { [status |-> s, x |-> x, func |-> do_value(x), evals |-> e] :
                x \in Points(D), e \in LsEvals(s) } : s \in LsStatuses }

NoProbe == [dE |-> 0, t_A |-> Rat(1, 1), q_A |-> 0, u |-> Rat(0, 1),
            armed |-> FALSE, called |-> FALSE, accepted |-> FALSE]
NoThreads == [tls |-> << >>, ws |-> << >>, shadow |-> << >>, keys |-> << >>]
\* a second run of minimize, on a thread whose pool entry was never used:
\* its pool entry, its storage, its workspace, its chain and its locals
NoRun == [buffers |-> NoBuffers, mem |-> ZeroMem(0), workspace |-> NoWorkspace,
          chain |-> NoChain, drv |-> NoDrv]
\* active: the two runs are under way
NoTwin == [active |-> FALSE, run |-> NoRun]

\* kind: "none", "construct", "begin", "full", "coord", "end" or "search";
\* before: the chain state the operation started from; j: the coordinate of
\* a coordinate move; x: the candidate coordinate (coordinate move); func:
\* the candidate's value (either move); accepted: the accept branch was
\* taken; out: what tcm::lbfgs::minimize left behind; status: what
\* local_search returned; evals0: _num_f_evals when the running advance began
NoStep == [kind |-> "none",
           before |-> [workspace |-> NoWorkspace, mem |-> ZeroMem(0),
                       chain |-> NoChain],
           j |-> 0, x |-> 0, func |-> NaN, accepted |-> FALSE,
           out |-> [status |-> "success", x |-> ZeroVec(0), func |-> 0,
                    evals |-> 0],
           status |-> "success", evals0 |-> 0]

\* pc: "idle", "many" (between many() and the last call of the function it
\* returned), "full" (a full-vector draw is complete), "one" (operator() has
\* returned); D: coordinates of the full-vector draw; y: the y captured by
\* the function many() returned; out: the values returned so far; log: the
\* variates consumed so far, in order; gen: the gamma and the normal variate
\* the generator yields to the next request of each kind
NoSampler == [pc |-> "idle", D |-> 0, y |-> [u |-> 0], out |-> << >>,
              log |-> << >>, gen |-> [gamma |-> 0, normal |-> 0]]

Init ==
    /\ buffers = NoBuffers
    /\ mem = ZeroMem(0)
    /\ workspace = NoWorkspace
    /\ chain = NoChain
    /\ drv = NoDrv
    /\ hist = NoHist
    /\ probe = NoProbe
    /\ threads = NoThreads
    /\ twin = NoTwin
    /\ step = NoStep
    /\ sampler = NoSampler

---------------------------------------------------------------------------
(* Actions of a minimize call *)

\* minimize(obj, x, parameters, [local_search_parameters,] generator) up to
\* the first loop test (or the pre-loop local_search)
MinimizeCall(overload, x0, num_iter, pat, allocOk) ==
    /\ drv.pc = "idle"
    /\ LET D == Cardinality(DOMAIN x0)
           r == thread_local_workspace(buffers, mem, D, allocOk)
           p == [q_V |-> q_V_example, q_A |-> q_A_example, t_0 |-> t_0_example,
                 num_iter |-> num_iter, patience |-> pat]
           d == [NoDrv EXCEPT !.overload = overload, !.x = x0, !.params = p,
                              !.patience = pat]
       IN  /\ buffers' = r.buffers
           /\ IF must_throw(r)
              THEN /\ mem' = r.mem
                   /\ workspace' = r.workspace
                   /\ chain' = NoChain
                   /\ drv' = [d EXCEPT !.pc = "thrown"]
                   /\ hist' = [NoHist EXCEPT !.x0 = x0,
                                             !.acquire_failed = ~r.has_value]
              ELSE LET m1 == WriteX(r.mem, FirstN(r.workspace.current.x, D), x0)
                       st == sa_chain_t(r.workspace, m1, p)
                   IN  /\ SetSt(st)
                       /\ drv' = [d EXCEPT !.pc = IF overload = "plain"
                                                  THEN "loop" ELSE "pre_search"]
                       /\ hist' = [NoHist EXCEPT !.x0 = x0,
                                                 !.acquire_failed = ~r.has_value]

\* the local_search call before the loop
PreSearch(out) ==
    /\ drv.pc = "pre_search"
    /\ LET r == local_search(St, out)
       IN  /\ SetSt(r.st)
           /\ drv' = IF local_search_failed(r.status)
                     THEN finalise(r.st, drv)
                     ELSE [drv EXCEPT !.pc = "loop"]
           /\ hist' = [hist EXCEPT !.ls_calls = @ + 1,
                                   !.ls_failed = IF r.status # "success"
                                                 THEN "pre" ELSE @,
                                   !.ls_before = workspace.current.func,
                                   !.ls_after = r.st.workspace.current.func,
                                   !.ls_best = r.st.workspace.best.func]
    /\ UNCHANGED buffers

\* the loop test fails: the run ends
LoopExit ==
    /\ drv.pc = "loop"
    /\ ~loop_condition(St, drv.params, drv.patience)
    /\ drv' = finalise(St, drv)
    /\ UNCHANGED <<buffers, mem, workspace, chain, hist>>

\* the loop test holds: chain() begins
AdvanceBegin ==
    /\ drv.pc = "loop"
    /\ loop_condition(St, drv.params, drv.patience)
    /\ SetSt(advance_begin(St, drv.params))
    /\ drv' = [drv EXCEPT !.pc = IF dim(St) = 0 THEN "end" ELSE "full", !.j = 0]
    /\ hist' = [hist EXCEPT !.advances = @ + 1, !.bf = workspace.best.func,
                            !.trig = "none"]
    /\ UNCHANGED buffers

\* one pass of the full-move loop
FullMove(g, u) ==
    /\ drv.pc = "full"
    /\ SetSt(full_move(St, drv.params, g, u))
    /\ drv' = IF drv.j + 1 < dim(St)
              THEN [drv EXCEPT !.j = @ + 1]
              ELSE [drv EXCEPT !.j = 0, !.pc = "coord"]
    /\ UNCHANGED <<buffers, hist>>

\* one pass of the coordinate-move loop
CoordMove(draw, u) ==
    /\ drv.pc = "coord"
    /\ SetSt(coord_move(St, drv.params, drv.j, draw, u))
    /\ drv' = IF drv.j + 1 < dim(St)
              THEN [drv EXCEPT !.j = @ + 1]
              ELSE [drv EXCEPT !.j = 0, !.pc = "end"]
    /\ UNCHANGED <<buffers, hist>>

\* ++_i: chain() returns
AdvanceEnd ==
    /\ drv.pc = "end"
    /\ LET st  == advance_end(St)
           imp == FLt(st.workspace.best.func, hist.bf)
           stl == IF imp THEN 0 ELSE hist.stale + 1
       IN  /\ SetSt(st)
           /\ hist' = [hist EXCEPT
                  !.improved = imp,
                  !.stale    = stl,
                  !.starved  = @ \/ (/\ drv.params.patience >= 1
                                     /\ stl >= drv.params.patience
                                     /\ st.chain._i < drv.params.num_iter)]
    /\ drv' = [drv EXCEPT !.pc = "after"]
    /\ UNCHANGED buffers

\* the rest of the loop body, overload without local search
AfterAdvance ==
    /\ drv.pc = "after"
    /\ drv.overload = "plain"
    /\ drv' = after_advance(St, drv)
    /\ UNCHANGED <<buffers, mem, workspace, chain, hist>>

\* the rest of the loop body, overload with local search: best.func improved
AfterAdvanceSearch(out) ==
    /\ drv.pc = "after"
    /\ drv.overload = "local_search"
    /\ improved_since(St, drv)
    /\ LET d1 == [drv EXCEPT !.best = workspace.best.func,
                             !.patience = drv.params.patience]
           r  == local_search(St, out)
       IN  /\ SetSt(r.st)
           /\ drv' = IF local_search_failed(r.status)
                     THEN finalise(r.st, d1)
                     ELSE [d1 EXCEPT !.patience = (@ - 1) % SizeMod,
                                     !.pc = "loop"]
           /\ hist' = [hist EXCEPT !.ls_calls = @ + 1,
                                   !.ls_failed = IF r.status # "success"
                                                 THEN "loop" ELSE @,
                                   !.ls_before = workspace.current.func,
                                   !.ls_after = r.st.workspace.current.func,
                                   !.ls_best = r.st.workspace.best.func,
                                   !.trig = "search",
                                   !.lowered = FLt(workspace.best.func,
                                                   hist.ls_best)]
    /\ UNCHANGED buffers

\* the rest of the loop body, overload with local search: no improvement
AfterAdvanceNoSearch ==
    /\ drv.pc = "after"
    /\ drv.overload = "local_search"
    /\ ~improved_since(St, drv)
    /\ drv' = [drv EXCEPT !.patience = (@ - 1) % SizeMod, !.pc = "loop"]
    /\ hist' = [hist EXCEPT !.trig = "skip",
                            !.lowered = FLt(workspace.best.func, hist.ls_best)]
    /\ UNCHANGED <<buffers, mem, workspace, chain>>

\* the caller takes the result (or the exception); the thread's pool entry
\* and its storage stay as the run left them
Return ==
    /\ drv.pc \in {"done", "thrown"}
    /\ drv' = NoDrv
    /\ workspace' = NoWorkspace
    /\ chain' = NoChain
    /\ hist' = NoHist
    /\ UNCHANGED <<buffers, mem>>

Next ==
    \/ /\ \E o \in Overloads, D \in Dims, ok \in BOOLEAN :
             \E x0 \in InitialPoints(D), n \in NumIters(D) :
                \E pat \in Patiences(n) : MinimizeCall(o, x0, n, pat, ok)
       /\ UNCHANGED others
    \/ /\ \E out \in LsOutcomes(dim(St)) : PreSearch(out)
       /\ UNCHANGED others
    \/ LoopExit /\ UNCHANGED others
    \/ AdvanceBegin /\ UNCHANGED others
    \/ /\ \E g \in [0 .. (dim(St) - 1) -> Steps], u \in Uniforms :
             FullMove(g, u)
       /\ UNCHANGED others
    \/ /\ \E draw \in Steps, u \in Uniforms : CoordMove(draw, u)
       /\ UNCHANGED others
    \/ AdvanceEnd /\ UNCHANGED others
    \/ AfterAdvance /\ UNCHANGED others
    \/ /\ \E out \in LsOutcomes(dim(St)) : AfterAdvanceSearch(out)
       /\ UNCHANGED others
    \/ AfterAdvanceNoSearch /\ UNCHANGED others
    \/ Return /\ UNCHANGED others

Spec == Init /\ [][Next]_vars

---------------------------------------------------------------------------
(* Two runs side by side.  The first is the run of the actions above, on a  *)
(* pool entry that earlier calls may have used; the second, twin.run, is    *)
(* given the same objective, initial point, parameters, solver outcomes and *)
(* draws on a thread that never used its pool entry.  Each step of the      *)
(* second run executes the statement the first run executes: the branch     *)
(* taken depends only on what Observed compares.                            *)

RunSt(R) == [workspace |-> R.workspace, mem |-> R.mem, chain |-> R.chain]
RunSet(R, st, d) ==
    [R EXCEPT !.workspace = st.workspace, !.mem = st.mem, !.chain = st.chain,
              !.drv = d]

\* what a caller and the chain can see of a run: the locals of minimize, the
\* chain's counters, and the three points with the elements of their views
Observed(w, m, c, d) ==
    [drv |-> d, chain |-> c,
     points |-> [v \in Views |-> [func |-> w[v].func, x |-> ReadX(m, w[v].x)]]]

\* minimize up to the first loop test, on a fresh pool entry
run_call(overload, x0, num_iter, pat) ==
    LET D == Cardinality(DOMAIN x0)
        r == thread_local_workspace(NoBuffers, ZeroMem(0), D, TRUE)
        p == [q_V |-> q_V_example, q_A |-> q_A_example, t_0 |-> t_0_example,
              num_iter |-> num_iter, patience |-> pat]
        d == [NoDrv EXCEPT !.overload = overload, !.x = x0, !.params = p,
                           !.patience = pat]
    IN  IF must_throw(r)
        THEN [buffers |-> r.buffers, mem |-> r.mem, workspace |-> r.workspace,
              chain |-> NoChain, drv |-> [d EXCEPT !.pc = "thrown"]]
        ELSE LET m1 == WriteX(r.mem, FirstN(r.workspace.current.x, D), x0)
                 st == sa_chain_t(r.workspace, m1, p)
             IN  [buffers |-> r.buffers, mem |-> st.mem,
                  workspace |-> st.workspace, chain |-> st.chain,
                  drv |-> [d EXCEPT !.pc = IF overload = "plain"
                                           THEN "loop" ELSE "pre_search"]]

\* the local_search call before the loop
run_pre_search(R, out) ==
    LET r == local_search(RunSt(R), out)
    IN  RunSet(R, r.st, IF local_search_failed(r.status)
                        THEN finalise(r.st, R.drv)
                        ELSE [R.drv EXCEPT !.pc = "loop"])

\* the loop test fails
run_loop_exit(R) == [R EXCEPT !.drv = finalise(RunSt(R), R.drv)]

\* the loop test holds: chain() begins
run_advance_begin(R) ==
    RunSet(R, advance_begin(RunSt(R), R.drv.params),
           [R.drv EXCEPT !.pc = IF dim(RunSt(R)) = 0 THEN "end" ELSE "full",
                         !.j = 0])

\* one pass of the full-move loop
run_full_move(R, g, u) ==
    RunSet(R, full_move(RunSt(R), R.drv.params, g, u),
           IF R.drv.j + 1 < dim(RunSt(R))
           THEN [R.drv EXCEPT !.j = @ + 1]
           ELSE [R.drv EXCEPT !.j = 0, !.pc = "coord"])

\* one pass of the coordinate-move loop
run_coord_move(R, draw, u) ==
    RunSet(R, coord_move(RunSt(R), R.drv.params, R.drv.j, draw, u),
           IF R.drv.j + 1 < dim(RunSt(R))
           THEN [R.drv EXCEPT !.j = @ + 1]
           ELSE [R.drv EXCEPT !.j = 0, !.pc = "end"])

\* ++_i: chain() returns
run_advance_end(R) ==
    RunSet(R, advance_end(RunSt(R)), [R.drv EXCEPT !.pc = "after"])

\* the rest of the loop body, overload without local search
run_after_advance(R) == [R EXCEPT !.drv = after_advance(RunSt(R), R.drv)]

\* the rest of the loop body, overload with local search: best.func improved
run_after_search(R, out) ==
    LET d1 == [R.drv EXCEPT !.best = R.workspace.best.func,
                            !.patience = R.drv.params.patience]
        r  == local_search(RunSt(R), out)
    IN  RunSet(R, r.st, IF local_search_failed(r.status)
                        THEN finalise(r.st, d1)
                        ELSE [d1 EXCEPT !.patience = (@ - 1) % SizeMod,
                                        !.pc = "loop"])

\* the rest of the loop body, overload with local search: no improvement
run_after_no_search(R) ==
    [R EXCEPT !.drv = [R.drv EXCEPT !.patience = (@ - 1) % SizeMod,
                                    !.pc = "loop"]]

\* sizes of earlier runs on the first thread whose buffers need a second
\* cache line each
PriorSizes == {cache_line_size + 1}

\* an earlier run of dimension size on the first thread, as far as the pool
\* keeps it: the entry resized to size, and values left in the three views
PriorRun(size, v) ==
    /\ drv.pc = "idle"
    /\ LET r  == thread_local_workspace(buffers, mem, size, TRUE)
           m1 == WriteX(r.mem, r.workspace.current.x,
                        [k \in 0 .. (size - 1) |-> v])
           m2 == WriteX(m1, r.workspace.proposed.x,
                        [k \in 0 .. (size - 1) |-> v])
           m3 == WriteX(m2, r.workspace.best.x,
                        [k \in 0 .. (size - 1) |-> v])
       IN  /\ buffers' = r.buffers
           /\ mem' = m3
    /\ UNCHANGED <<workspace, chain, drv, hist, probe, threads, twin, step, sampler>>

TwinCall(overload, x0, num_iter, pat) ==
    /\ MinimizeCall(overload, x0, num_iter, pat, TRUE)
    /\ twin' = [active |-> TRUE,
                run |-> run_call(overload, x0, num_iter, pat)]
    /\ UNCHANGED <<probe, threads, step, sampler>>

TwinPreSearch(out) ==
    /\ PreSearch(out)
    /\ twin' = [twin EXCEPT !.run = run_pre_search(@, out)]
    /\ UNCHANGED <<probe, threads, step, sampler>>

TwinLoopExit ==
    /\ LoopExit
    /\ twin' = [twin EXCEPT !.run = run_loop_exit(@)]
    /\ UNCHANGED <<probe, threads, step, sampler>>

TwinAdvanceBegin ==
    /\ AdvanceBegin
    /\ twin' = [twin EXCEPT !.run = run_advance_begin(@)]
    /\ UNCHANGED <<probe, threads, step, sampler>>

TwinFullMove(g, u) ==
    /\ FullMove(g, u)
    /\ twin' = [twin EXCEPT !.run = run_full_move(@, g, u)]
    /\ UNCHANGED <<probe, threads, step, sampler>>

TwinCoordMove(draw, u) ==
    /\ CoordMove(draw, u)
    /\ twin' = [twin EXCEPT !.run = run_coord_move(@, draw, u)]
    /\ UNCHANGED <<probe, threads, step, sampler>>

TwinAdvanceEnd ==
    /\ AdvanceEnd
    /\ twin' = [twin EXCEPT !.run = run_advance_end(@)]
    /\ UNCHANGED <<probe, threads, step, sampler>>

TwinAfterAdvance ==
    /\ AfterAdvance
    /\ twin' = [twin EXCEPT !.run = run_after_advance(@)]
    /\ UNCHANGED <<probe, threads, step, sampler>>

TwinAfterAdvanceSearch(out) ==
    /\ AfterAdvanceSearch(out)
    /\ twin' = [twin EXCEPT !.run = run_after_search(@, out)]
    /\ UNCHANGED <<probe, threads, step, sampler>>

TwinAfterAdvanceNoSearch ==
    /\ AfterAdvanceNoSearch
    /\ twin' = [twin EXCEPT !.run = run_after_no_search(@)]
    /\ UNCHANGED <<probe, threads, step, sampler>>

\* both callers take their results; the first thread's pool entry stays as
\* its run left it
TwinReturn ==
    /\ Return
    /\ twin' = NoTwin
    /\ UNCHANGED <<probe, threads, step, sampler>>

NextTwin ==
    \/ \E size \in PriorSizes, v \in Coord : PriorRun(size, v)
    \/ \E o \in Overloads, D \in Dims :
          \E x0 \in InitialPoints(D), n \in NumIters(D) :
             \E pat \in Patiences(n) : TwinCall(o, x0, n, pat)
    \/ \E out \in LsOutcomes(dim(St)) : TwinPreSearch(out)
    \/ TwinLoopExit
    \/ TwinAdvanceBegin
    \/ \E g \in [0 .. (dim(St) - 1) -> Steps], u \in Uniforms :
          TwinFullMove(g, u)
    \/ \E draw \in Steps, u \in Uniforms : TwinCoordMove(draw, u)
    \/ TwinAdvanceEnd
    \/ TwinAfterAdvance
    \/ \E out \in LsOutcomes(dim(St)) : TwinAfterAdvanceSearch(out)
    \/ TwinAfterAdvanceNoSearch
    \/ TwinReturn

SpecTwin == Init /\ [][NextTwin]_vars

---------------------------------------------------------------------------
(* The chain under minimize, one operation at a time: every step of a run   *)
(* also records in step the operation made on the chain, what the generator *)
(* and the solver fed it, and the chain state it started from.  Dimension 0 *)
(* (an empty x) is included.                                                *)

ChainDims == 0 .. MaxDim
\* params.num_iter of these runs: as many as MaxWork allows in dimension D
ChainIters(D) == IF D = 0 THEN MaxWork ELSE MaxWork \div D

ChainCall(overload, x0, num_iter, pat) ==
    /\ MinimizeCall(overload, x0, num_iter, pat, TRUE)
    /\ step' = [NoStep EXCEPT !.kind = "construct"]
    /\ UNCHANGED <<probe, threads, twin, sampler>>

ChainSearched(out) ==
    [NoStep EXCEPT !.kind = "search", !.before = St, !.out = out,
                   !.status = local_search(St, out).status]

ChainPreSearch(out) ==
    /\ PreSearch(out)
    /\ step' = ChainSearched(out)
    /\ UNCHANGED <<probe, threads, twin, sampler>>

ChainLoopExit ==
    /\ LoopExit
    /\ step' = NoStep
    /\ UNCHANGED <<probe, threads, twin, sampler>>

ChainAdvanceBegin ==
    /\ AdvanceBegin
    /\ step' = [NoStep EXCEPT !.kind = "begin", !.before = St,
                              !.evals0 = chain._num_f_evals]
    /\ UNCHANGED <<probe, threads, twin, sampler>>

ChainFullMove(g, u) ==
    /\ FullMove(g, u)
    /\ step' = [NoStep EXCEPT
            !.kind = "full", !.before = St, !.j = drv.j,
            !.func = generate_full(St, g).workspace.proposed.func,
            !.accepted = full_accepts(St, drv.params, g, u),
            !.evals0 = step.evals0]
    /\ UNCHANGED <<probe, threads, twin, sampler>>

ChainCoordMove(draw, u) ==
    /\ CoordMove(draw, u)
    /\ step' = [NoStep EXCEPT
            !.kind = "coord", !.before = St, !.j = drv.j, !.x = draw,
            !.func = generate_one(St, drv.j, draw).func,
            !.accepted = coord_accepts(St, drv.params, drv.j, draw, u),
            !.evals0 = step.evals0]
    /\ UNCHANGED <<probe, threads, twin, sampler>>

ChainAdvanceEnd ==
    /\ AdvanceEnd
    /\ step' = [NoStep EXCEPT !.kind = "end", !.before = St,
                              !.evals0 = step.evals0]
    /\ UNCHANGED <<probe, threads, twin, sampler>>

ChainAfterAdvance ==
    /\ AfterAdvance
    /\ step' = NoStep
    /\ UNCHANGED <<probe, threads, twin, sampler>>

ChainAfterAdvanceSearch(out) ==
    /\ AfterAdvanceSearch(out)
    /\ step' = ChainSearched(out)
    /\ UNCHANGED <<probe, threads, twin, sampler>>

ChainAfterAdvanceNoSearch ==
    /\ AfterAdvanceNoSearch
    /\ step' = NoStep
    /\ UNCHANGED <<probe, threads, twin, sampler>>

ChainReturn ==
    /\ Return
    /\ step' = NoStep
    /\ UNCHANGED <<probe, threads, twin, sampler>>

NextChain ==
    \/ \E o \in Overloads, D \in ChainDims :
          \E x0 \in InitialPoints(D) :
             ChainCall(o, x0, ChainIters(D), MaxPatience)
    \/ \E out \in LsOutcomes(dim(St)) : ChainPreSearch(out)
    \/ ChainLoopExit
    \/ ChainAdvanceBegin
    \/ \E g \in [0 .. (dim(St) - 1) -> Steps], u \in Uniforms :
          ChainFullMove(g, u)
    \/ \E draw \in Steps, u \in Uniforms : ChainCoordMove(draw, u)
    \/ ChainAdvanceEnd
    \/ ChainAfterAdvance
    \/ \E out \in LsOutcomes(dim(St)) : ChainAfterAdvanceSearch(out)
    \/ ChainAfterAdvanceNoSearch
    \/ ChainReturn

SpecChain == Init /\ [][NextChain]_vars

---------------------------------------------------------------------------
(* The temperature schedule.  A chain whose iteration counter stands at _i  *)
(* advances; with no coordinates to move an advance is the head of          *)
(* operator()() followed by ++_i.  The counter starts where a run starts and *)
(* where static_cast<float>(2 + _i) stops being exact; these indices are    *)
(* values of the platform's size_t, not bounded by SizeBits.                *)

\* advances followed from each starting index
ScheduleLen == 60
ScheduleStarts == {0, 2 ^ FloatMantissa - (ScheduleLen \div 2)}
\* params.t_0
ScheduleT0 == {1, t_0_example}

InitSchedule ==
    /\ buffers = NoBuffers
    /\ mem = ZeroMem(0)
    /\ workspace = NoWorkspace
    /\ hist = NoHist
    /\ probe = NoProbe
    /\ threads = NoThreads
    /\ twin = NoTwin
    /\ step = NoStep
    /\ sampler = NoSampler
    /\ \E t_0 \in ScheduleT0, i \in ScheduleStarts :
          LET p == [q_V |-> q_V_example, q_A |-> q_A_example, t_0 |-> t_0,
                    num_iter |-> i + ScheduleLen, patience |-> 0]
          IN  /\ drv = [NoDrv EXCEPT !.pc = "schedule", !.params = p]
              /\ chain = [NoChain EXCEPT
                      !._i = i, !._num_f_evals = 1,
                      !._t_V = IF i = 0 THEN Rat(t_0, 1)
                               ELSE temperature(p, i - 1)]

\* chain(): t_V = temperature(_i), the sampler's parameters, ++_i
ScheduleAdvance ==
    /\ drv.pc = "schedule"
    /\ chain._i < drv.params.num_iter
    /\ SetSt(advance_end(advance_begin(St, drv.params)))
    /\ UNCHANGED <<buffers, drv, hist, probe, threads, twin, step, sampler>>

NextSchedule == ScheduleAdvance

SpecSchedule == InitSchedule /\ [][NextSchedule]_vars

---------------------------------------------------------------------------
(* tsallis_distribution_t, src/include/tsallis_distribution.hpp.  Variates  *)
(* are kept symbolic: y = s * sqrt(u) is the record [u |-> u] (s is fixed   *)
(* between two param() calls), and a returned value x / y is the record     *)
(* [x |-> x, y |-> y].                                                      *)

\* values of the gamma variate u and of the standard normal variate
Gammas == {1, 2}
Normals == {-1, 0, 1}
\* D of a full-vector draw
SamplerDims == 1 .. (MaxDim + 1)

\* _gamma_dist(generator)
gamma_variate(smp) ==
    [value |-> smp.gen.gamma,
     smp |-> [smp EXCEPT !.log = Append(@, [kind |-> "gamma",
                                           value |-> smp.gen.gamma])]]

\* a normal distribution's operator()(generator)
normal_variate(smp) ==
    [value |-> smp.gen.normal,
     smp |-> [smp EXCEPT !.log = Append(@, [kind |-> "normal",
                                           value |-> smp.gen.normal])]]

\* y = _params.s() * std::sqrt(u)
scale_of(u) == [u |-> u]

\* operator()(generator): one value of the 1D distribution
tsallis_draw(smp) ==
    LET u == gamma_variate(smp)
        y == scale_of(u.value)
        x == normal_variate(u.smp)
    IN  [x.smp EXCEPT !.out = Append(@, [x |-> x.value, y |-> y])]

\* many(generator): draws u and returns a function that holds y
many(smp) ==
    LET u == gamma_variate(smp)
    IN  [u.smp EXCEPT !.y = scale_of(u.value)]

\* one call of the function many() returned: a normal variate of standard
\* deviation 1 / y
many_call_own_scale(smp) ==
    LET u == gamma_variate(smp)
        x == normal_variate(u.smp)
    IN  [x.smp EXCEPT !.out = Append(@, [x |-> x.value,
                                        y |-> scale_of(u.value)])]
many_call(smp) ==
    LET x == normal_variate(smp)
    IN  [x.smp EXCEPT !.out = Append(@, [x |-> x.value, y |-> smp.y])]

\* the generator's next variates are any
Refill(smp, u, z) == [smp EXCEPT !.gen = [gamma |-> u, normal |-> z]]

InitSampler ==
    /\ buffers = NoBuffers
    /\ mem = ZeroMem(0)
    /\ workspace = NoWorkspace
    /\ chain = NoChain
    /\ drv = NoDrv
    /\ hist = NoHist
    /\ probe = NoProbe
    /\ threads = NoThreads
    /\ twin = NoTwin
    /\ step = NoStep
    /\ \E u \in Gammas, z \in Normals : sampler = Refill(NoSampler, u, z)

\* generate_full: auto g = _tsallis_dist.many(_generator)
FullDrawBegin(D, u, z) ==
    /\ sampler.pc = "idle"
    /\ sampler' = Refill([many(sampler) EXCEPT !.pc = "many", !.D = D], u, z)
    /\ UNCHANGED <<buffers, mem, workspace, chain, drv, hist, probe, threads,
                   twin, step>>

\* generate_full: one g() of std::transform
FullDrawNext(u, z) ==
    /\ sampler.pc = "many"
    /\ Len(sampler.out) < sampler.D
    /\ sampler' = Refill(many_call(sampler), u, z)
    /\ UNCHANGED <<buffers, mem, workspace, chain, drv, hist, probe, threads,
                   twin, step>>

\* generate_full: std::transform has gone through the D coordinates
FullDrawEnd ==
    /\ sampler.pc = "many"
    /\ Len(sampler.out) = sampler.D
    /\ sampler' = [sampler EXCEPT !.pc = "full"]
    /\ UNCHANGED <<buffers, mem, workspace, chain, drv, hist, probe, threads,
                   twin, step>>

\* generate_one: _tsallis_dist(_generator)
SingleDraw(u, z) ==
    /\ sampler.pc = "idle"
    /\ sampler' = Refill([tsallis_draw(sampler) EXCEPT !.pc = "one"], u, z)
    /\ UNCHANGED <<buffers, mem, workspace, chain, drv, hist, probe, threads,
                   twin, step>>

\* the chain goes on with the values drawn
DrawDone ==
    /\ sampler.pc \in {"full", "one"}
    /\ sampler' = [NoSampler EXCEPT !.gen = sampler.gen]
    /\ UNCHANGED <<buffers, mem, workspace, chain, drv, hist, probe, threads,
                   twin, step>>

NextSampler ==
    \/ \E D \in SamplerDims, u \in Gammas, z \in Normals :
          FullDrawBegin(D, u, z)
    \/ \E u \in Gammas, z \in Normals : FullDrawNext(u, z)
    \/ FullDrawEnd
    \/ \E u \in Gammas, z \in Normals : SingleDraw(u, z)
    \/ DrawDone

SpecSampler == InitSampler /\ [][NextSampler]_vars

---------------------------------------------------------------------------
(* Direct use of the pool: thread_local_workspace is exported, and a caller *)
(* works on the workspace it returns as the chain does.                     *)

\* sizes a caller may ask for: small ones, one that needs a second cache
\* line per buffer, one whose byte size overflows and is caught by
\* allocate_buffer's guard, and two whose capacity arithmetic wraps around
PoolSizes ==
    {0, 1, cache_line_size + 1, SizeMod \div 8,
     cache_line_size * ((SizeMod \div (NumBuffers * cache_line_size)) + 1),
     SizeMax}

\* thread_local_workspace(size) called directly
PoolCall(size, allocOk) ==
    /\ drv.pc = "idle"
    /\ LET r == thread_local_workspace(buffers, mem, size, allocOk)
       IN  /\ buffers' = r.buffers
           /\ mem' = r.mem
           /\ workspace' = r.workspace
           /\ hist' = [NoHist EXCEPT !.call =
                  [made |-> TRUE, size |-> size, has_value |-> r.has_value,
                   caught |-> r.caught, escaped |-> r.escaped,
                   kept |-> r.buffers = buffers /\ r.mem = mem,
                   fresh |-> TRUE,
                   allocated |-> r.buffers._data # buffers._data,
                   cap_before |-> buffers._capacity]]
    /\ UNCHANGED <<chain, drv>>

\* the caller stores v in element k of a view
PoolWrite(view, k, v) ==
    /\ hist.call.has_value
    /\ InBounds(workspace[view].x, mem)
    /\ k < workspace[view].x.size
    /\ mem' = Store(mem, workspace[view].x.data + k, v)
    /\ hist' = [hist EXCEPT !.call.fresh = FALSE]
    /\ UNCHANGED <<buffers, workspace, chain, drv>>

\* an accepting swap: swap(current, proposed)
PoolSwap ==
    /\ hist.call.has_value
    /\ SetSt(swap_current_proposed(St))
    /\ UNCHANGED <<buffers, drv, hist>>

\* a copy-assignment into best: best = current
PoolAssignBest ==
    /\ hist.call.has_value
    /\ \A v \in {"current", "best"} : InBounds(workspace[v].x, mem)
    /\ SetSt(assign(St, "best", "current"))
    /\ hist' = [hist EXCEPT !.call.fresh = FALSE]
    /\ UNCHANGED <<buffers, drv>>

NextPool ==
    \/ /\ \E size \in PoolSizes, ok \in BOOLEAN : PoolCall(size, ok)
       /\ UNCHANGED others
    \/ /\ \E view \in {"current", "proposed"}, v \in Coord :
             \E k \in {0, workspace[view].x.size - 1} : PoolWrite(view, k, v)
       /\ UNCHANGED others
    \/ PoolSwap /\ UNCHANGED others
    \/ PoolAssignBest /\ UNCHANGED others

SpecPool == Init /\ [][NextPool]_vars

---------------------------------------------------------------------------
(* Two threads.  "static thread_local sa_buffers_t buffers{}" in            *)
(* thread_local_workspace is one object per thread; threads.tls maps each   *)
(* instance to its fields and its storage, threads.ws[t] is the workspace   *)
(* thread t holds (a pointer into the storage of instance key).             *)

Threads == {"a", "b"}

\* the instance of the function-local "buffers" a thread's call works on
entry_of_static(t) == "a"
entry_of(t) == t

ThreadSizes == {1, cache_line_size + 1}

\* what thread t sees through its workspace: the three points and their
\* elements ("dangling" for a view that is no longer inside the storage)
Snapshot(th, t) ==
    LET w == th.ws[t]
        m == th.tls[w.key].mem
    IN  IF ~w.has_value THEN [has_value |-> FALSE]
        ELSE [has_value |-> TRUE,
              points |-> [v \in Views |->
                  [func |-> w.workspace[v].func,
                   x |-> IF InBounds(w.workspace[v].x, m)
                         THEN ReadX(m, w.workspace[v].x)
                         ELSE "dangling"]]]

\* thread t made a step that led to th: t's own record of what it sees
Seen(th, t) == [th EXCEPT !.shadow[t] = Snapshot(th, t)]

\* thread t's chain state: its workspace over the storage it points into
ThreadSt(t) ==
    [workspace |-> threads.ws[t].workspace,
     mem |-> threads.tls[threads.ws[t].key].mem,
     chain |-> NoChain]

\* thread t's workspace and the storage behind it become those of st
ThreadSet(t, st) ==
    Seen([threads EXCEPT !.ws[t].workspace = st.workspace,
                         !.tls[threads.ws[t].key].mem = st.mem], t)

InitThreads ==
    /\ buffers = NoBuffers
    /\ mem = ZeroMem(0)
    /\ workspace = NoWorkspace
    /\ chain = NoChain
    /\ drv = NoDrv
    /\ hist = NoHist
    /\ probe = NoProbe
    /\ twin = NoTwin
    /\ step = NoStep
    /\ sampler = NoSampler
    /\ threads =
          [tls    |-> [k \in Threads |-> [buffers |-> NoBuffers,
                                          mem |-> ZeroMem(0)]],
           ws     |-> [t \in Threads |-> [has_value |-> FALSE, key |-> t,
                                          workspace |-> NoWorkspace]],
           shadow |-> [t \in Threads |-> [has_value |-> FALSE]],
           keys   |-> [t \in Threads |-> {}]]

\* thread t calls thread_local_workspace(size)
ThreadCall(t, size, allocOk) ==
    /\ LET e == entry_of(t)
           r == thread_local_workspace(threads.tls[e].buffers,
                                       threads.tls[e].mem, size, allocOk)
       IN  threads' = Seen(
               [threads EXCEPT
                   !.tls[e] = [buffers |-> r.buffers, mem |-> r.mem],
                   !.ws[t] = [has_value |-> r.has_value, key |-> e,
                              workspace |-> r.workspace],
                   !.keys[t] = @ \cup {e}], t)
    /\ UNCHANGED <<buffers, mem, workspace, chain, drv, hist, probe, twin,
                 step, sampler>>

\* thread t stores v in element k of one of its views
ThreadWrite(t, view, k, v) ==
    /\ threads.ws[t].has_value
    /\ InBounds(threads.ws[t].workspace[view].x, ThreadSt(t).mem)
    /\ k < threads.ws[t].workspace[view].x.size
    /\ threads' = ThreadSet(t, [ThreadSt(t) EXCEPT !.mem =
            Store(@, threads.ws[t].workspace[view].x.data + k, v)])
    /\ UNCHANGED <<buffers, mem, workspace, chain, drv, hist, probe, twin,
                 step, sampler>>

\* thread t accepts a full move: swap(current, proposed)
ThreadSwap(t) ==
    /\ threads.ws[t].has_value
    /\ threads' = ThreadSet(t, swap_current_proposed(ThreadSt(t)))
    /\ UNCHANGED <<buffers, mem, workspace, chain, drv, hist, probe, twin,
                 step, sampler>>

\* thread t records a new best point: best = current
ThreadAssignBest(t) ==
    /\ threads.ws[t].has_value
    /\ \A v \in {"current", "best"} :
          InBounds(threads.ws[t].workspace[v].x, ThreadSt(t).mem)
    /\ threads' = ThreadSet(t, assign(ThreadSt(t), "best", "current"))
    /\ UNCHANGED <<buffers, mem, workspace, chain, drv, hist, probe, twin,
                 step, sampler>>

NextThreads ==
    \/ \E t \in Threads, size \in ThreadSizes, ok \in BOOLEAN :
          ThreadCall(t, size, ok)
    \/ \E t \in Threads, view \in {"current", "proposed"}, v \in Coord :
          ThreadWrite(t, view, 0, v)
    \/ \E t \in Threads : ThreadSwap(t)
    \/ \E t \in Threads : ThreadAssignBest(t)

SpecThreads == InitThreads /\ [][NextThreads]_vars

---------------------------------------------------------------------------
(* accept_or_reject on its own *)

\* dE = proposed.func - current.func
Deltas == (0 - MaxDelta) .. MaxDelta
\* acceptance temperatures t_A > 0
Temperatures == {Rat(1, 2), Rat(1, 1), Rat(2, 1), Rat(8, 1), Rat(10, 1)}
\* params.q_A: below, at and above 1
AcceptanceParams == {-5, -1, 0, 1, 2, 3}
\* values of the uniform draw in [0, 1)
Draws == {Rat(0, 1), Rat(1, 4), Rat(1, 2), Rat(3, 4), Rat(7, 8)}

InitAccept ==
    /\ Init
    /\ probe = NoProbe

\* the caller meets a proposal: dE, t_A, q_A and the generator's next draw
AcceptArgs(dE, t_A, q_A, u) ==
    /\ ~probe.armed
    /\ probe' = [dE |-> dE, t_A |-> t_A, q_A |-> q_A, u |-> u,
                 armed |-> TRUE, called |-> FALSE, accepted |-> FALSE]
    /\ UNCHANGED <<buffers, mem, workspace, chain, drv, hist, threads, twin,
                 step, sampler>>

\* accept_or_reject(dE, t_A, accept, reject)
AcceptOrReject ==
    /\ probe.armed
    /\ ~probe.called
    /\ probe' = [probe EXCEPT
            !.called = TRUE,
            !.accepted = accept_or_reject(probe.dE, probe.t_A, probe.q_A,
                                          probe.u)]
    /\ UNCHANGED <<buffers, mem, workspace, chain, drv, hist, threads, twin,
                 step, sampler>>

\* the caller goes on to the next proposal
AcceptDone ==
    /\ probe.called
    /\ probe' = NoProbe
    /\ UNCHANGED <<buffers, mem, workspace, chain, drv, hist, threads, twin,
                 step, sampler>>

NextAccept ==
    \/ \E dE \in Deltas, t_A \in Temperatures, q_A \in AcceptanceParams,
          u \in Draws : AcceptArgs(dE, t_A, q_A, u)
    \/ AcceptOrReject
    \/ AcceptDone

SpecAccept == InitAccept /\ [][NextAccept]_vars

---------------------------------------------------------------------------
(* Properties *)

Running == drv.pc \notin {"idle", "done", "thrown"}
Constructed == drv.pc \notin {"idle", "thrown"}

\* C1: once the chain is constructed, at every move boundary of every
\* advance() (and after every local_search), workspace.best.func <=
\* workspace.current.func.
C1_BestNotAboveCurrent ==
    Constructed => FLe(workspace.best.func, workspace.current.func)

\* C1's case: inside an advance, after an accepted move, with current
\* strictly worse than best
C1_Witness ==
    /\ drv.pc \in {"full", "coord", "end"}
    /\ chain._num_accepted > 0
    /\ FLt(workspace.best.func, workspace.current.func)

\* C2: overload without local search, patience P >= 1: when P advances in a
\* row have not lowered workspace.best.func and iterations are left, the
\* driver stops and the returned num_iter is below params.num_iter.
C2_PatienceStopsPlain ==
    (drv.pc = "done" /\ drv.overload = "plain" /\ hist.starved)
        => drv.result.num_iter < drv.params.num_iter

\* C3: overload with local search: an iteration that lowered best.func leaves
\* the patience counter at P (reset, not decremented), and a run that stops
\* early for lack of patience has seen P advances in a row without
\* improvement.
C3_PatienceExact ==
    /\ (drv.pc = "loop" /\ drv.overload = "local_search" /\ hist.improved)
          => drv.patience = drv.params.patience
    /\ (/\ drv.pc = "done" /\ drv.overload = "local_search"
        /\ hist.ls_failed = "no"
        /\ drv.result.num_iter < drv.params.num_iter)
          => hist.stale >= drv.params.patience

\* steps of one loop iteration: the loop test with the head of chain(), 2*D
\* moves, ++_i, the rest of the loop body
IterSteps == 2 * dim(St) + 3

\* an upper bound of the steps a running call still takes
Rank ==
    LET left == (drv.params.num_iter - chain._i) * IterSteps
    IN  CASE drv.pc = "pre_search" -> (drv.params.num_iter + 1) * IterSteps + 2
          [] drv.pc = "loop"       -> left + 1
          [] drv.pc = "full"       -> left - drv.j
          [] drv.pc = "coord"      -> left - dim(St) - drv.j
          [] drv.pc = "end"        -> left - 2 * dim(St)
          [] drv.pc = "after"      -> left + 2
          [] OTHER                 -> 0

C4_State ==
    /\ Constructed =>
          /\ hist.advances <= drv.params.num_iter
          /\ chain._i <= hist.advances
    /\ drv.pc = "done" =>
          /\ drv.result.num_iter <= drv.params.num_iter
          /\ hist.ls_failed = "no" =>
                (chain._i = drv.params.num_iter \/ drv.patience = 0)
          /\ (drv.params.num_iter = 0 \/ drv.params.patience = 0) =>
                hist.advances = 0

\* C4: a minimize call (either overload) makes at most params.num_iter
\* advance() calls and ends: every step of a running call lowers a
\* non-negative bound of the steps left, the loop is left with
\* iteration == num_iter or patience == 0, result.num_iter <= params.num_iter,
\* and no advance() is made when num_iter or patience is 0.
C4_Terminates ==
    /\ []C4_State
    /\ [][Running => (Rank' < Rank /\ Rank' >= 0)]_vars

\* C4's case: a run that left the loop for lack of patience before num_iter
C4_Witness ==
    /\ drv.pc = "done"
    /\ hist.ls_failed = "no"
    /\ drv.patience = 0
    /\ chain._i > 0
    /\ chain._i < drv.params.num_iter

\* C5: when local_search fails inside minimize, the value minimize returns
\* carries the failing status.
C5_StatusReturned ==
    (drv.pc = "done" /\ hist.ls_failed # "no")
        => ("status" \in DOMAIN drv.result /\ drv.result["status"] # "success")

\* C6: once local_search has returned a failure, minimize has returned: the
\* result is the chain's snapshot, x is best.x, no advance() or local_search
\* follows; after a failure of the pre-loop call num_iter is 0, acceptance is
\* NaN and the caller's vector holds the initial point.
C6_StopsOnFailure ==
    /\ hist.ls_failed # "no" =>
          /\ drv.pc = "done"
          /\ drv.result = result_t(St)
          /\ drv.x = ReadX(mem, workspace.best.x)
    /\ hist.ls_failed = "pre" =>
          /\ hist.advances = 0
          /\ hist.ls_calls = 1
          /\ drv.result.num_iter = 0
          /\ drv.result.acceptance = Rat(0, 0)
          /\ drv.x = hist.x0

\* C6's case: the pre-loop local_search failed after moving proposed.x away
\* from the initial point
C6_Witness ==
    /\ hist.ls_failed = "pre"
    /\ drv.pc = "done"
    /\ ReadX(mem, workspace.proposed.x) # hist.x0

\* C7: when thread_local_workspace returns empty, minimize throws before the
\* objective is evaluated and without writing the caller's vector.
C7_NoAcquireNoTouch ==
    hist.acquire_failed =>
        /\ drv.pc = "thrown"
        /\ chain._num_f_evals = 0
        /\ drv.x = hist.x0

\* C7's case: the allocation of the first run failed
C7_Witness ==
    /\ hist.acquire_failed
    /\ drv.pc = "thrown"
    /\ buffers._capacity = 0

\* the capacity and the byte size a request needs, without wrap-around
TrueCapacity(size) ==
    NumBuffers * (((size + cache_line_size - 1) \div cache_line_size)
                  * cache_line_size)
TrueBytes(size) == TrueCapacity(size) * SizeofFloat

\* C8: thread_local_workspace lets no exception escape; on an overflow of the
\* capacity arithmetic or an allocator failure it returns an empty optional;
\* a failed call leaves the pool entry and its storage as they were, and a
\* later call with a satisfiable size succeeds.
C8_FailureIsRecoverable ==
    hist.call.made =>
        /\ ~hist.call.escaped
        /\ (TrueBytes(hist.call.size) > SizeMax \/ hist.call.caught = "bad_alloc")
              => ~hist.call.has_value
        /\ ~hist.call.has_value => hist.call.kept
        /\ \A size \in {1, cache_line_size + 1} :
              thread_local_workspace(buffers, mem, size, TRUE).has_value

\* C9: a size whose byte size 3 * roundUp(size, 64) * sizeof(float) does not
\* fit in size_t makes the call fail; no workspace is returned for it.
C9_OverflowRejected ==
    (hist.call.made /\ hist.call.has_value)
        => TrueBytes(hist.call.size) <= SizeMax

Disjoint(a, b) ==
    a.size = 0 \/ b.size = 0 \/ a.data + a.size <= b.data
                             \/ b.data + b.size <= a.data

\* C10: the three views have length D, lie inside the allocation and are
\* pairwise disjoint; current and proposed are the first two slots in either
\* order, best is the third.
C10_ViewsDisjoint ==
    hist.call.has_value =>
        /\ \A v \in {"current", "proposed", "best"} :
              /\ workspace[v].x.size = buffers._buffer_size
              /\ InBounds(workspace[v].x, mem)
        /\ Disjoint(workspace.current.x, workspace.proposed.x)
        /\ Disjoint(workspace.current.x, workspace.best.x)
        /\ Disjoint(workspace.proposed.x, workspace.best.x)
        /\ workspace.best.x = get(buffers, 2)
        /\ {workspace.current.x, workspace.proposed.x}
              = {get(buffers, 0), get(buffers, 1)}

\* C11: right after a successful thread_local_workspace(size) (a resize that
\* allocated or reused storage), every element of current.x, proposed.x and
\* best.x is a float of the allocation and is zero.
C11_ZeroAfterResize ==
    (hist.call.made /\ hist.call.has_value /\ hist.call.fresh) =>
        \A v \in Views :
            /\ InBounds(workspace[v].x, mem)
            /\ ReadX(mem, workspace[v].x) = ZeroVec(hist.call.size)

\* C13: a call of accept_or_reject with dE < 0 takes the accept branch, for
\* every t_A, every q_A and every value the uniform draw would have.
C13_DownhillAccepted ==
    (probe.called /\ probe.dE < 0) => probe.accepted

\* C13's case: a downhill move at the draw and the parameters most hostile to
\* acceptance (a draw close to 1, a low temperature, q_A < 1)
C13_Witness ==
    /\ probe.called
    /\ probe.dE < 0
    /\ probe.u = Rat(7, 8)
    /\ probe.t_A = Rat(1, 2)
    /\ probe.q_A = -5
    /\ probe.accepted

\* factor = 1 + (q_A - 1) * dE / t_A as the fraction FactorNum / FactorDen
FactorNum == probe.t_A.n + (probe.q_A - 1) * probe.dE * probe.t_A.d
FactorDen == probe.t_A.n

RatLe(a, b) == a.n * b.d <= b.n * a.d

\* candidate values of P
Grid == {Rat(n, d) : n \in 0 .. 8, d \in {1, 2, 4, 8}}

\* r compared with factor^(1 / (1 - q_A)) for factor > 0, by the power that
\* makes both sides rational: "lt", "eq" or "gt"
AgainstP(r) ==
    LET k == IF probe.q_A < 1 THEN 1 - probe.q_A ELSE probe.q_A - 1
        l == IF probe.q_A < 1 THEN (r.n ^ k) * FactorDen
             ELSE (r.n ^ k) * FactorNum
        h == IF probe.q_A < 1 THEN FactorNum * (r.d ^ k)
             ELSE FactorDen * (r.d ^ k)
    IN  IF probe.q_A = 1
        THEN (IF r.n < r.d THEN "lt" ELSE IF r.n = r.d THEN "eq" ELSE "gt")
        ELSE (IF l < h THEN "lt" ELSE IF l = h THEN "eq" ELSE "gt")

\* C20: a call of accept_or_reject with dE >= 0 ends in one of its two
\* branches, and takes the accept branch iff the draw u is <= P, where P is 0
\* when factor <= 0 (so every draw above 0 is rejected) and
\* factor^(1/(1-q_A)) otherwise: whenever a fraction r is P, accepted iff
\* u <= r; whenever r is below P, u <= r is accepted; whenever r is above P,
\* u >= r is rejected.
C20_AcceptIffDrawBelowP ==
    (probe.called /\ probe.dE >= 0) =>
        /\ probe.accepted \in BOOLEAN
        /\ FactorNum <= 0 => (probe.accepted <=> RatLe(probe.u, Rat(0, 1)))
        /\ FactorNum > 0 =>
              \A r \in Grid :
                  /\ AgainstP(r) = "eq" => (probe.accepted <=> RatLe(probe.u, r))
                  /\ (AgainstP(r) = "lt" /\ RatLe(probe.u, r)) => probe.accepted
                  /\ (AgainstP(r) = "gt" /\ RatLe(r, probe.u)) => ~probe.accepted

\* C20's case: an uphill move whose factor is not positive, met with a draw
\* above 0, is rejected
C20_Witness ==
    /\ probe.called
    /\ probe.dE > 0
    /\ FactorNum <= 0
    /\ probe.u = Rat(1, 4)
    /\ ~probe.accepted

\* an uphill move accepted with the draw exactly at P = 1/2
C20_AtP ==
    /\ probe.called
    /\ probe.dE > 0
    /\ FactorNum > 0
    /\ probe.u = Rat(1, 2)
    /\ AgainstP(Rat(1, 2)) = "eq"
    /\ probe.accepted

\* C12: with two threads calling thread_local_workspace and working on the
\* workspaces they get, in any interleaving: what a thread sees through its
\* workspace (the three points and their elements) is what its own last step
\* left, every thread has used one pool entry only, and no entry was used by
\* both threads.
C12_ThreadsApart ==
    /\ \A t \in Threads : Snapshot(threads, t) = threads.shadow[t]
    /\ \A t \in Threads : Cardinality(threads.keys[t]) <= 1
    /\ \A t, u \in Threads :
          t # u => threads.keys[t] \cap threads.keys[u] = {}

\* C12's case: both threads hold a workspace with a point stored in it, and
\* thread "a" has called thread_local_workspace again after its entry
\* allocated twice
C12_Witness ==
    /\ threads # NoThreads
    /\ \A t \in Threads :
          /\ threads.ws[t].has_value
          /\ threads.tls[threads.ws[t].key].mem.nz # << >>
    /\ threads.tls["a"].buffers._data >= 2
    /\ threads.ws["a"].workspace.current.x.size = 1

\* C14: when minimize has returned (either overload, by the loop's end or
\* after a failed local_search), the caller's x equals workspace.best.x
\* element by element, result.func is workspace.best.func, and num_iter,
\* num_f_evals and acceptance are the chain's iteration(), num_f_evals() and
\* acceptance().
C14_ReturnsBest ==
    drv.pc = "done" =>
        /\ DOMAIN drv.x = 0 .. (workspace.best.x.size - 1)
        /\ \A k \in DOMAIN drv.x : drv.x[k] = Load(mem, workspace.best.x.data + k)
        /\ drv.result.func = workspace.best.func
        /\ drv.result.num_iter = chain._i
        /\ drv.result.num_f_evals = chain._num_f_evals
        /\ drv.result.acceptance = acceptance(St)

\* C14's case: a run returned after some iterations with a best point that is
\* neither the initial point nor the current point
C14_Witness ==
    /\ drv.pc = "done"
    /\ chain._i > 0
    /\ drv.x # hist.x0
    /\ FLt(workspace.best.func, workspace.current.func)

\* C15: after a local_search call, whatever status and value the solver
\* reported, current.func is not greater than it was before the call.
C15_SearchNeverWorsens ==
    hist.ls_calls > 0 => FLe(hist.ls_after, hist.ls_before)

\* C17: overload with local search: after an advance the loop body resets
\* patience and calls local_search iff the advance left workspace.best.func
\* strictly below its value right after the previous local_search call (the
\* pre-loop call included).
C17_SearchIffLowered ==
    (drv.overload = "local_search" /\ hist.trig # "none") =>
        (hist.trig = "search" <=> hist.lowered)

\* C18: from the chain's construction on, no step of advance() or
\* local_search() raises workspace.best.func, and the func minimize returns is
\* not greater than the objective value at the caller's initial point.
C18_BestNeverIncreases ==
    /\ [](drv.pc = "done" => FLe(drv.result.func, do_value(hist.x0)))
    /\ [][(Constructed /\ Constructed') =>
             FLe(workspace'.best.func, workspace.best.func)]_vars

\* C18's case: a run returned a value strictly below the objective at the
\* initial point, which an advance (not a local_search) reached after an
\* uphill move had been accepted
C18_Witness ==
    /\ drv.pc = "done"
    /\ drv.overload = "plain"
    /\ FLt(drv.result.func, do_value(hist.x0))
    /\ FLt(workspace.best.func, workspace.current.func)

\* C19: a successful resize(size) has allocated new storage iff
\* 3 * roundUp(size, 64) exceeded the capacity tracked before the call, and
\* kept the existing allocation otherwise; the tracked capacity has not
\* decreased and is at least 3 * roundUp(current logical size, 64).
C19_ReuseOrGrow ==
    (hist.call.made /\ hist.call.has_value) =>
        /\ hist.call.allocated <=>
              TrueCapacity(hist.call.size) > hist.call.cap_before
        /\ buffers._capacity >= hist.call.cap_before
        /\ buffers._capacity >= TrueCapacity(buffers._buffer_size)
        /\ buffers._capacity = mem.cap

\* over any sequence of calls, failed ones included, the tracked capacity
\* does not decrease
CapacityMonotone == [][buffers'._capacity >= buffers._capacity]_vars

\* C16: a run on a pool entry that earlier runs (of the same or of another
\* dimension) have used passes through the same states as the run with the
\* same objective, initial point, parameters, solver outcomes and draws on a
\* fresh pool entry, and returns the same result and output vector
C16_SameRun ==
    twin.active =>
        Observed(workspace, mem, chain, drv)
            = Observed(twin.run.workspace, twin.run.mem, twin.run.chain,
                       twin.run.drv)

\* a finished run, after at least one advance, on a pool entry that a run of
\* another dimension left larger than a fresh one
C16_Witness ==
    /\ twin.active
    /\ drv.pc = "done"
    /\ chain._i > 0
    /\ buffers._capacity > twin.run.buffers._capacity

\* what each operation adds to the chain's counters
CountersExact ==
    LET b == step.before.chain
    IN  /\ step.kind = "construct" =>
               chain = [chain EXCEPT !._i = 0, !._num_accepted = 0,
                                     !._num_f_evals = 1]
        /\ step.kind \in {"full", "coord"} =>
               /\ chain._num_f_evals = b._num_f_evals + 1
               /\ chain._i = b._i
               /\ chain._num_accepted =
                     b._num_accepted + (IF step.accepted THEN 1 ELSE 0)
        /\ step.kind = "end" =>
               /\ chain._i = b._i + 1
               /\ chain._num_f_evals = step.evals0 + 2 * dim(St)
               /\ chain._num_accepted = b._num_accepted
        /\ step.kind = "search" =>
               /\ chain._num_f_evals = b._num_f_evals + step.out.evals
               /\ chain._i = b._i
               /\ chain._num_accepted = b._num_accepted

\* while the chain lives none of its counters decreases
CountersMonotone ==
    [][(drv.pc \notin {"idle", "thrown"} /\ drv'.pc # "idle") =>
            /\ chain'._i >= chain._i
            /\ chain'._num_accepted >= chain._num_accepted
            /\ chain'._num_f_evals >= chain._num_f_evals]_vars

\* C21: construction counts one objective evaluation; an advance adds one to
\* the iteration and 2 * D to num_f_evals (one per full move and one per
\* coordinate move); local_search adds one per value_and_gradient call;
\* num_accepted grows by one per accepted move and by nothing otherwise;
\* none of the three counters ever decreases
C21_Counters == []CountersExact /\ CountersMonotone

\* an advance in dimension MaxDim has ended with an accepted move in it, and
\* a local search has run
C21_Witness ==
    /\ step.kind = "end"
    /\ dim(St) = MaxDim
    /\ chain._num_accepted > 0
    /\ hist.ls_calls > 0

\* a step boundary: the chain exists and no advance is under way
StepBoundary == drv.pc \in {"pre_search", "loop", "after", "done"}
\* 0/0
RatIsNaN(r) == r.n = 0 /\ r.d = 0
\* 0 <= n/d <= 1
InUnit(r) == r.d > 0 /\ 0 <= r.n /\ r.n <= r.d

\* C22: at every step boundary num_accepted <= 2 * iteration * D, acceptance()
\* lies in [0, 1] whenever iteration > 0, and acceptance() is NaN exactly
\* when iteration = 0
C22_AcceptanceRange ==
    StepBoundary =>
        /\ chain._num_accepted <= 2 * chain._i * dim(St)
        /\ chain._i > 0 => InUnit(acceptance(St))
        /\ RatIsNaN(acceptance(St)) <=> chain._i = 0

\* the same in every dimension but 0
AcceptanceRangeNonEmpty == dim(St) > 0 => C22_AcceptanceRange

\* a point as its holder sees it: func and the elements of x
PointOf(st, v) ==
    [func |-> st.workspace[v].func, x |-> ReadX(st.mem, st.workspace[v].x)]

\* the solver's status is none of the six questionable ones nor success
HardFailure(out) == out.status \notin SoftStatuses \cup {"success"}
\* a questionable status with a refined value not below current.func
SoftFailure(st, out) ==
    out.status \in SoftStatuses /\ FGe(out.func, st.workspace.current.func)

\* C23: when local_search does not accept the refined point (a hard failure,
\* or a questionable status with proposed.func >= current.func), current and
\* best keep x and func; it returns the solver's status in the first case
\* and success in the second
C23_RefusedSearchKeeps ==
    (step.kind = "search"
        /\ (HardFailure(step.out) \/ SoftFailure(step.before, step.out))) =>
        /\ PointOf(St, "current") = PointOf(step.before, "current")
        /\ PointOf(St, "best") = PointOf(step.before, "best")
        /\ step.status = IF HardFailure(step.out) THEN step.out.status
                         ELSE "success"

\* a refused search whose refined point differs from current.x
C23_Witness ==
    /\ step.kind = "search"
    /\ SoftFailure(step.before, step.out)
    /\ step.out.x # PointOf(step.before, "current").x
    /\ dim(St) = MaxDim

\* the same after a hard failure
C23_WitnessHard ==
    /\ step.kind = "search"
    /\ HardFailure(step.out)
    /\ step.out.x # PointOf(step.before, "current").x
    /\ step.out.func < step.before.workspace.current.func

\* C24: a rejected move of either phase leaves current.x, current.func, best
\* and num_accepted as they were; after a rejected coordinate move,
\* coordinate j of current.x holds its previous value again
C24_RejectedMoveKeeps ==
    (step.kind \in {"full", "coord"} /\ ~step.accepted) =>
        /\ PointOf(St, "current") = PointOf(step.before, "current")
        /\ PointOf(St, "best") = PointOf(step.before, "best")
        /\ chain._num_accepted = step.before.chain._num_accepted
        /\ workspace.current.x = step.before.workspace.current.x

\* a rejected coordinate move whose candidate differs from current.x[j]
C24_Witness ==
    /\ step.kind = "coord"
    /\ ~step.accepted
    /\ wrap(step.x) # PointOf(step.before, "current").x[step.j]
    /\ step.j = MaxDim - 1

\* a rejected full move whose candidate differs from current.x
C24_WitnessFull ==
    /\ step.kind = "full"
    /\ ~step.accepted
    /\ PointOf(St, "proposed").x # PointOf(St, "current").x

\* current.x of the last operation's starting state with coordinate j
\* replaced by the wrapped variate
Candidate ==
    [PointOf(step.before, "current").x EXCEPT ![step.j] = wrap(step.x)]

\* C25: the candidate of the coordinate move for j is current.x with only
\* coordinate j replaced by wrap(variate); on acceptance current.x[j] and
\* current.func change and nothing else of current.x or of the proposed slot
\* does, and best is overwritten only if the new current.func < best.func
C25_CoordinateMove ==
    step.kind = "coord" =>
        /\ step.func = do_value(Candidate)
        /\ step.accepted =>
              /\ PointOf(St, "current") = [func |-> step.func, x |-> Candidate]
              /\ workspace.current.x = step.before.workspace.current.x
              /\ workspace.proposed = step.before.workspace.proposed
              /\ PointOf(St, "proposed") = PointOf(step.before, "proposed")
              /\ PointOf(St, "best") =
                    IF FLt(step.func, step.before.workspace.best.func)
                    THEN PointOf(St, "current")
                    ELSE PointOf(step.before, "best")

\* an accepted coordinate move that changes the last coordinate and does not
\* improve on best
C25_Witness ==
    /\ step.kind = "coord"
    /\ step.accepted
    /\ step.j = MaxDim - 1
    /\ Candidate # PointOf(step.before, "current").x
    /\ ~FLt(step.func, step.before.workspace.best.func)

\* an accepted coordinate move that improves on best
C25_WitnessBest ==
    /\ step.kind = "coord"
    /\ step.accepted
    /\ FLt(step.func, step.before.workspace.best.func)

\* C26: at every move boundary (after construction, after each move of an
\* advance, after local_search) current.func is the objective's value at
\* current.x and best.func is the objective's value at best.x
C26_FuncIsValue ==
    Constructed =>
        /\ workspace.current.func = do_value(PointOf(St, "current").x)
        /\ workspace.best.func = do_value(PointOf(St, "best").x)

\* after an accepted coordinate move, with accepted full moves and a local
\* search behind it, and best no longer equal to current
C26_Witness ==
    /\ step.kind = "coord"
    /\ step.accepted
    /\ chain._num_accepted > 1
    /\ hist.ls_calls > 0
    /\ PointOf(St, "best") # PointOf(St, "current")

\* C27: right after the chain is constructed over a workspace, current.func
\* is the objective's value at current.x, best equals current in func and in
\* every coordinate, every element of proposed.x is zero, iteration = 0,
\* num_accepted = 0 and num_f_evals = 1
C27_Constructed ==
    step.kind = "construct" =>
        /\ workspace.current.func = do_value(PointOf(St, "current").x)
        /\ PointOf(St, "best") = PointOf(St, "current")
        /\ PointOf(St, "proposed").x = ZeroVec(dim(St))
        /\ chain._i = 0
        /\ chain._num_accepted = 0
        /\ chain._num_f_evals = 1

\* a chain constructed in dimension MaxDim at the caller's point, which is
\* not the origin
C27_Witness ==
    /\ step.kind = "construct"
    /\ dim(St) = MaxDim
    /\ PointOf(St, "current").x = hist.x0
    /\ workspace.current.func > 0

\* a < b for rationals with positive denominators
RatLess(a, b) == a.n * b.d < b.n * a.d

\* C28: for q_V in (1, 3) and t_0 > 0, temperature(i) is strictly positive
\* for every i >= 0 and strictly decreasing in i, so the t_V given to the
\* sampler in every advance is positive
C28_TemperatureSchedule ==
    drv.pc = "schedule" =>
        LET t == temperature(drv.params, chain._i)
        IN  /\ t.n > 0 /\ t.d > 0
            /\ chain._t_V.n > 0 /\ chain._t_V.d > 0
            /\ chain._i > 0 => RatLess(t, chain._t_V)

\* the t_V of every advance is positive
TemperaturePositive ==
    drv.pc = "schedule" => (chain._t_V.n > 0 /\ chain._t_V.d > 0)

\* the schedule in exact arithmetic
TemperatureExactDecreasing ==
    drv.pc = "schedule" =>
        RatLess(temperature_exact(drv.params, chain._i + 1),
                temperature_exact(drv.params, chain._i))

\* C29: one full-vector draw consumes exactly one gamma variate, before any
\* of its D normal variates, and all D coordinates are scaled by the same y;
\* a single-coordinate draw consumes its own gamma variate and then exactly
\* one normal variate
C29_VariateOrder ==
    LET log == sampler.log
        out == sampler.out
    IN  /\ sampler.pc \in {"many", "full"} =>
              /\ Len(log) = Len(out) + 1
              /\ log[1].kind = "gamma"
              /\ \A k \in 1 .. Len(out) :
                    /\ log[k + 1].kind = "normal"
                    /\ out[k] = [x |-> log[k + 1].value,
                                 y |-> scale_of(log[1].value)]
        /\ sampler.pc = "full" => Len(out) = sampler.D
        /\ sampler.pc = "one" =>
              /\ Len(log) = 2
              /\ log[1].kind = "gamma"
              /\ log[2].kind = "normal"
              /\ out = <<[x |-> log[2].value, y |-> scale_of(log[1].value)]>>

\* a complete full-vector draw of the largest dimension, made while the
\* generator's next gamma variate differed from the one the draw consumed
C29_Witness ==
    /\ sampler.pc = "full"
    /\ sampler.D = MaxDim + 1
    /\ sampler.gen.gamma # sampler.log[1].value
    /\ sampler.out[1].x # sampler.out[2].x

\* a complete single-coordinate draw
C29_WitnessOne == sampler.pc = "one" /\ sampler.out[1].x # 0

=============================================================================
